---- MODULE Spec2Model ----
(***************************************************************************)
(* Model of the GSPAY2 Go SDK client: construction through functional      *)
(* options (src/client), the retrying request executor, the callback IP    *)
(* allow-list, signatures (src/internal/signature), callback verification, *)
(* response decoding and the redaction of endpoints in logs and errors,     *)
(* QR encoding, amount formatting (src/client), the sanitizer               *)
(* (src/internal/sanitize), the buffer pool (src/helper/gc) and concurrent   *)
(* callers of one client.                                                   *)
(*                                                                         *)
(* Durations are counted in units of 500 ms.                               *)
(***************************************************************************)
EXTENDS Integers, Sequences, FiniteSets, TLC

\* ---------------------------------------------------------------- bounds
\* Largest argument of WithRetries the model tries (the smallest is -1).
MaxRetries == 2
\* Largest duration handed to WithRetryWait (the smallest is 0).
MaxWait == 2
\* Largest number of options handed to New.
MaxOpts == 2
\* Largest magnitude of the random jitter added to a backoff wait.
MaxJitter == 1
\* Largest number of strings handed to WithCallbackIPWhitelist.
MaxEntries == 2
\* Longest message handed to the signing functions.
MaxMsgLen == 1
\* Longest string handed to Verify.
MaxSigLen == 2
\* Longest of the short contents handed to QR.Encode (in bytes).
MaxContent == 20
\* Largest magnitude of the amounts FormatAmountIDR is tried on one by one.
MaxAmount == 120
\* Most buffers the pool's allocator makes.
MaxBuffers == 2
\* Longest content a goroutine writes to a buffer.
MaxBufLen == 2

\* ------------------------------------------------------ program constants
\* "Default is 3 retries."
DefaultRetries == 3
\* "Default is 500ms minimum, 2s maximum."
DefaultRetryWaitMin == 1
DefaultRetryWaitMax == 4
\* "Default is 30 seconds."
DefaultTimeout == 60
\* "Minimum allowed timeout is 5 seconds": 5*time.Second.
MinTimeout == 10

VARIABLES
    \* --- Client (configuration)
    Retries,        \* Client.Retries
    RetryWaitMin,   \* Client.RetryWaitMin
    RetryWaitMax,   \* Client.RetryWaitMax
    CallbackIPWhitelist,  \* Client.CallbackIPWhitelist: strings as given
    parsedIPs,      \* Client.parsedIPs: 16-byte addresses
    parsedIPNets,   \* Client.parsedIPNets
    nopts,          \* options New has applied so far
    built,          \* New has returned
    \* --- one logical call of the request executor
    state,          \* Idle, Sending, RetryWait, Succeeded, Failed
    attempts,       \* transport attempts started
    waits,          \* backoff waits started
    wait,           \* the backoff wait computed last (-1: none yet)
    remaining,      \* what is left of the backoff wait under way
    inflight,       \* transport attempts in flight
    outcomes,       \* what the transport answered, attempt by attempt
    canceled,       \* the caller's cancellation signal has fired
    cancelMark,     \* <<state, attempts>> when the signal fired, or <<>>
    class,          \* classification of the final result
    events,         \* log events emitted, in order
    \* --- callback source checks made on the built client
    ipStr,          \* the source address string checked last (NoCall: none)
    whitelisted,    \* what IsIPWhitelisted returned for it
    verifyErr,      \* what VerifyCallbackIP returned for it
    \* --- Client (more of the configuration)
    digest,         \* Client.digest: "nil" or the name of a hash constructor
    Debug,          \* Client.Debug
    logger,         \* Client.logger: Nop, Default or Custom
    AuthKey,        \* Client.AuthKey
    \* --- signatures
    sig,            \* the signing call made last: function, data, digest, result
    prevSig,        \* the signing call made before it
    expected,       \* first argument of the last call of Verify (NoCall: none)
    actual,         \* its second argument
    verified,       \* what it returned
    \* --- callback verification
    callback,       \* the callback verified last: fields and claimed signature
    sourceIP,       \* the source address given with it (NoCall: none)
    callbackErr,    \* what VerifyCallbackWithIP returned
    \* --- response decoding
    body,           \* the response body the call ended with
    stage,          \* none, envelope (outer decoding done), data (inner too)
    decodeErr,      \* the error decoding ended with ("nil": none)
    \* --- what leaves the client about the call's endpoint
    target,         \* the endpoint of the call (NoCall: none)
    observed,       \* the endpoint as shown in log events and error messages
    \* --- Client (the rest of the configuration the model keeps)
    Timeout,        \* Client.Timeout
    qrLevel,        \* Client.qrCfg.level
    applied,        \* the options New has applied, in order
    \* --- QR encoding
    qrContent,      \* length of the content handed to QR.Encode last (-1: none)
    qrErr,          \* the sentinel its error matches ("nil": no error)
    \* --- amount formatting
    idrAmount,      \* the amount handed to FormatAmountIDR last
    idrText,        \* what it returned (NoCall: no call yet)
    \* --- the sanitizer
    rawEndpoint,    \* the string handed to sanitize.Endpoint last (NoCall: none)
    sanitized,      \* what it returned
    \* --- the buffer pool gc.Default
    pooled,         \* the buffers lying in the pool, each with the bytes it
                    \* held when it was handed to Put
    buffers,        \* the bytes each buffer holds
    holds,          \* the buffers each goroutine holds
    got,            \* what each goroutine's last Get returned: the buffer (0:
                    \* no Get yet), its bytes, and the bytes it was Put back
                    \* with (NoCall: a new buffer)
    \* --- concurrent callers of the built client
    calls           \* each goroutine's call: function, argument, position,
                    \* the address parsed from the argument, result

cfgVars  == <<Retries, RetryWaitMin, RetryWaitMax, CallbackIPWhitelist, parsedIPs,
              parsedIPNets, nopts, built>>
execVars == <<state, attempts, waits, wait, remaining, inflight, outcomes, canceled,
              cancelMark, class, events>>
ipVars   == <<ipStr, whitelisted, verifyErr>>
optVars  == <<digest, Debug, logger, AuthKey>>
sigVars  == <<sig, prevSig>>
cmpVars  == <<expected, actual, verified>>
cbVars   == <<callback, sourceIP, callbackErr>>
decVars  == <<body, stage, decodeErr>>
logVars  == <<target, observed>>
svcVars  == <<optVars, sigVars, cmpVars, cbVars, decVars, logVars>>
auxVars  == <<Timeout, qrLevel, applied, qrContent, qrErr, idrAmount, idrText,
              rawEndpoint, sanitized, pooled, buffers, holds, got, calls>>
vars     == <<cfgVars, execVars, ipVars, svcVars, auxVars>>

\* ------------------------------------------------------------ construction

\* New: the defaults, before the options are applied.
New ==
    /\ Retries = DefaultRetries
    /\ RetryWaitMin = DefaultRetryWaitMin
    /\ RetryWaitMax = DefaultRetryWaitMax
    /\ CallbackIPWhitelist = <<>>
    /\ parsedIPs = <<>>
    /\ parsedIPNets = <<>>
    /\ nopts = 0
    /\ built = FALSE

\* New(authKey, secretKey): the fields the first part leaves out.
NewWith(authKey) ==
    /\ New
    /\ AuthKey = authKey
    /\ digest = "nil"
    /\ Debug = FALSE
    /\ logger = "Nop"
    /\ Timeout = DefaultTimeout
    /\ applied = <<>>

\* An option is applied inside New's loop, while opts remain.
ApplyingOptions == ~built /\ nopts < MaxOpts

WithRetriesNoGuard(retries) ==
    /\ ApplyingOptions
    /\ Retries' = retries
    /\ nopts' = nopts + 1
    /\ UNCHANGED <<RetryWaitMin, RetryWaitMax, built>>
    /\ UNCHANGED <<CallbackIPWhitelist, parsedIPs, parsedIPNets>>

\* WithRetries: negative values are ignored.
WithRetries(retries) ==
    /\ ApplyingOptions
    /\ Retries' = IF retries >= 0 THEN retries ELSE Retries
    /\ nopts' = nopts + 1
    /\ UNCHANGED <<RetryWaitMin, RetryWaitMax, built>>
    /\ UNCHANGED <<CallbackIPWhitelist, parsedIPs, parsedIPNets>>

WithTimeoutNoGuard(timeout) ==
    /\ ApplyingOptions
    /\ Timeout' = timeout
    /\ nopts' = nopts + 1
    /\ UNCHANGED <<Retries, RetryWaitMin, RetryWaitMax, built>>
    /\ UNCHANGED <<CallbackIPWhitelist, parsedIPs, parsedIPNets>>

\* WithTimeout: values below 5 seconds are ignored.
WithTimeout(timeout) ==
    /\ ApplyingOptions
    /\ Timeout' = IF timeout >= MinTimeout THEN timeout ELSE Timeout
    /\ nopts' = nopts + 1
    /\ UNCHANGED <<Retries, RetryWaitMin, RetryWaitMax, built>>
    /\ UNCHANGED <<CallbackIPWhitelist, parsedIPs, parsedIPNets>>

\* WithRetryWait: both values are stored as given.
WithRetryWait(min, max) ==
    /\ ApplyingOptions
    /\ RetryWaitMin' = min
    /\ RetryWaitMax' = max
    /\ nopts' = nopts + 1
    /\ UNCHANGED <<Retries, built>>
    /\ UNCHANGED <<CallbackIPWhitelist, parsedIPs, parsedIPNets>>

\* WithDigest: the hash constructor is stored as given, nil included.
WithDigest(d) ==
    /\ ApplyingOptions
    /\ digest' = d
    /\ nopts' = nopts + 1
    /\ UNCHANGED <<Retries, RetryWaitMin, RetryWaitMax, built>>
    /\ UNCHANGED <<CallbackIPWhitelist, parsedIPs, parsedIPNets>>
    /\ UNCHANGED <<Debug, logger, AuthKey>>

WithDebugAlwaysDefault(debug) ==
    /\ ApplyingOptions
    /\ Debug' = debug
    /\ logger' = IF debug THEN "Default" ELSE logger
    /\ nopts' = nopts + 1
    /\ UNCHANGED <<Retries, RetryWaitMin, RetryWaitMax, built>>
    /\ UNCHANGED <<CallbackIPWhitelist, parsedIPs, parsedIPNets>>
    /\ UNCHANGED <<digest, AuthKey>>

\* WithDebug: sets Debug; turning it on replaces a Nop logger by the default.
WithDebug(debug) ==
    /\ ApplyingOptions
    /\ Debug' = debug
    /\ logger' = IF debug /\ logger = "Nop" THEN "Default" ELSE logger
    /\ nopts' = nopts + 1
    /\ UNCHANGED <<Retries, RetryWaitMin, RetryWaitMax, built>>
    /\ UNCHANGED <<CallbackIPWhitelist, parsedIPs, parsedIPNets>>
    /\ UNCHANGED <<digest, AuthKey>>

\* WithLogger: nil stands for no logging.
WithLogger(l) ==
    /\ ApplyingOptions
    /\ logger' = IF l = "nil" THEN "Nop" ELSE l
    /\ nopts' = nopts + 1
    /\ UNCHANGED <<Retries, RetryWaitMin, RetryWaitMax, built>>
    /\ UNCHANGED <<CallbackIPWhitelist, parsedIPs, parsedIPNets>>
    /\ UNCHANGED <<digest, Debug, AuthKey>>

\* New returns the client.
Build ==
    /\ ~built
    /\ built' = TRUE
    /\ UNCHANGED <<Retries, RetryWaitMin, RetryWaitMax, nopts>>
    /\ UNCHANGED <<CallbackIPWhitelist, parsedIPs, parsedIPNets>>

\* --------------------------------------------------------- request executor

Transient == {"http5xx", "timeout", "connerr"}
Outcomes  == {"ok", "http4xx", "malformed"} \cup Transient
Terminal  == {"Succeeded", "Failed"}

RECURSIVE Pow2(_)
Pow2(n) == IF n <= 0 THEN 1 ELSE 2 * Pow2(n - 1)

\* Exponential backoff seeded by the attempt index, perturbed by the jitter,
\* bounded above by RetryWaitMax and below by RetryWaitMin.
calculateBackoff(attempt, jitter) ==
    LET perturbed == RetryWaitMin * Pow2(attempt) + jitter
    IN  IF perturbed > RetryWaitMax THEN RetryWaitMax
        ELSE IF perturbed < RetryWaitMin THEN RetryWaitMin
        ELSE perturbed

isRetryableAlsoClientError(o) == o \in Transient \cup {"http4xx"}

\* Only 5xx answers, timeouts and connection-level errors are transient.
isRetryable(o) == o \in Transient

retriesRemainOffByOne == attempts - 1 <= Retries

\* A transient failure is retried while the index of the failed attempt
\* (0 for the first) is below the retry count.
retriesRemain == attempts - 1 < Retries

\* Idle -> Sending: the first transport attempt starts.
Start ==
    /\ built
    /\ state = "Idle"
    /\ state' = "Sending"
    /\ attempts' = attempts + 1
    /\ inflight' = inflight + 1
    /\ events' = Append(events, "sending")
    /\ UNCHANGED <<waits, wait, remaining, outcomes, canceled, cancelMark, class>>

FinishSuppressedInDebug(st, cl, ev) ==
    /\ state' = st
    /\ class' = cl
    /\ events' = IF Debug /\ ev = "failed" THEN events ELSE Append(events, ev)
    /\ UNCHANGED <<waits, wait, remaining>>

\* The call ends: its state, its classification and its terminal event.
Finish(st, cl, ev) ==
    /\ state' = st
    /\ class' = cl
    /\ events' = Append(events, ev)
    /\ UNCHANGED <<waits, wait, remaining>>

\* Sending -> {Succeeded, RetryWait, Failed}: the attempt in flight returns.
\* decodable: whether a non-5xx response carries a decodable body.
TransportReturn(o, decodable, jitter) ==
    /\ state = "Sending"
    /\ inflight' = inflight - 1
    /\ UNCHANGED <<attempts, canceled, cancelMark>>
    /\ IF canceled
       THEN /\ outcomes' = Append(outcomes, "canceled")
            /\ Finish("Failed", "Canceled", "failed")
       ELSE /\ outcomes' = Append(outcomes, o)
            /\ IF isRetryable(o)
               THEN IF retriesRemain
                    THEN /\ state' = "RetryWait"
                         /\ wait' = calculateBackoff(attempts - 1, jitter)
                         /\ remaining' = wait'
                         /\ waits' = waits + 1
                         /\ events' = Append(events, "retry")
                         /\ UNCHANGED class
                    ELSE Finish("Failed", "TransientTransport", "failed")
               ELSE IF o = "ok" \/ (o = "http4xx" /\ decodable)
                    THEN Finish("Succeeded", "Success", "completed")
                    ELSE Finish("Failed", "FatalTransport", "failed")

TickStalled ==
    /\ state = "RetryWait"
    /\ ~canceled
    /\ remaining > 0
    /\ UNCHANGED execVars

\* Time passes during a backoff wait.
Tick ==
    /\ state = "RetryWait"
    /\ ~canceled
    /\ remaining > 0
    /\ remaining' = remaining - 1
    /\ UNCHANGED <<state, attempts, waits, wait, inflight, outcomes, canceled,
                   cancelMark, class, events>>

WaitElapsedEarly ==
    /\ state = "RetryWait"
    /\ ~canceled
    /\ state' = "Sending"
    /\ attempts' = attempts + 1
    /\ inflight' = inflight + 1
    /\ events' = Append(events, "sending")
    /\ UNCHANGED <<waits, wait, remaining, outcomes, canceled, cancelMark, class>>

\* RetryWait -> Sending: the computed wait has elapsed.
WaitElapsed ==
    /\ state = "RetryWait"
    /\ ~canceled
    /\ remaining <= 0
    /\ state' = "Sending"
    /\ attempts' = attempts + 1
    /\ inflight' = inflight + 1
    /\ events' = Append(events, "sending")
    /\ UNCHANGED <<waits, wait, remaining, outcomes, canceled, cancelMark, class>>

WaitCanceledAsTransient ==
    /\ state = "RetryWait"
    /\ canceled
    /\ Finish("Failed", "TransientTransport", "failed")
    /\ UNCHANGED <<attempts, inflight, outcomes, canceled, cancelMark>>

\* RetryWait -> Failed: the wait is aborted by the cancellation signal.
WaitCanceled ==
    /\ state = "RetryWait"
    /\ canceled
    /\ Finish("Failed", "Canceled", "failed")
    /\ UNCHANGED <<attempts, inflight, outcomes, canceled, cancelMark>>

\* The caller cancels the context of a call that has not ended.
Cancel ==
    /\ built
    /\ state \notin Terminal
    /\ ~canceled
    /\ canceled' = TRUE
    /\ cancelMark' = <<state, attempts>>
    /\ UNCHANGED <<state, attempts, waits, wait, remaining, inflight, outcomes,
                   class, events>>

\* ------------------------------------------------- strings and addresses
\* A string is the sequence of its characters. An address is its 16-byte
\* form, written as 8 groups of 16 bits; NoAddr stands for a failed parse.

NoAddr == <<>>
Digits == <<"0", "1", "2", "3", "4", "5", "6", "7", "8", "9">>
HexLower == Digits \o <<"a", "b", "c", "d", "e", "f">>
HexUpper == Digits \o <<"A", "B", "C", "D", "E", "F">>

IsDigit(c) == \E i \in 1..10 : Digits[i] = c
IsHex(c) == \E i \in 1..16 : HexLower[i] = c \/ HexUpper[i] = c
HexVal(c) == CHOOSE v \in 0..15 : HexLower[v + 1] = c \/ HexUpper[v + 1] = c

\* strings.IndexByte / LastIndexByte, 1-based, 0 when absent.
IndexByte(s, c) ==
    IF \E i \in 1..Len(s) : s[i] = c
    THEN CHOOSE i \in 1..Len(s) : s[i] = c /\ \A j \in 1..(i - 1) : s[j] # c
    ELSE 0
LastIndexByte(s, c) ==
    IF \E i \in 1..Len(s) : s[i] = c
    THEN CHOOSE i \in 1..Len(s) : s[i] = c /\ \A j \in (i + 1)..Len(s) : s[j] # c
    ELSE 0

RECURSIVE Split(_, _)
Split(s, c) ==
    LET i == IndexByte(s, c)
    IN  IF i = 0 THEN <<s>>
        ELSE <<SubSeq(s, 1, i - 1)>> \o Split(SubSeq(s, i + 1, Len(s)), c)

RECURSIVE DecVal(_)
DecVal(s) == IF s = <<>> THEN 0
             ELSE 10 * DecVal(SubSeq(s, 1, Len(s) - 1)) + HexVal(s[Len(s)])
RECURSIVE HexNum(_)
HexNum(s) == IF s = <<>> THEN 0
             ELSE 16 * HexNum(SubSeq(s, 1, Len(s) - 1)) + HexVal(s[Len(s)])

RECURSIVE HexRun(_)
\* Length of the longest prefix of s made of hex digits.
HexRun(s) == IF s # <<>> /\ IsHex(s[1]) THEN 1 + HexRun(Tail(s)) ELSE 0

\* netip.parseIPv4Fields: four dotted decimal octets, no empty field, no
\* leading zero, none above 255. The 4 octets, or NoAddr.
octetOK(f) ==
    /\ f # <<>>
    /\ \A i \in 1..Len(f) : IsDigit(f[i])
    /\ Len(f) > 1 => f[1] # "0"
    /\ Len(f) <= 3
    /\ DecVal(f) <= 255
parseIPv4Fields(s) ==
    LET fs == Split(s, ".")
    IN  IF Len(fs) = 4 /\ \A i \in 1..4 : octetOK(fs[i])
        THEN [i \in 1..4 |-> DecVal(fs[i])]
        ELSE NoAddr

v4InV6Prefix == <<0, 0, 0, 0, 0, 65535>>
\* Addr.As16 of an IPv4 address: the IPv4-mapped IPv6 form.
As16(o) == v4InV6Prefix \o <<o[1] * 256 + o[2], o[3] * 256 + o[4]>>

RECURSIVE parseIPv6Loop(_, _, _)
\* The loop of netip.parseIPv6 over what is left of the string, with the
\* groups read so far and the position of the "::" (-1: none).
\* <<groups, ellipsis>>, or NoAddr.
parseIPv6Loop(s, g, ell) ==
    IF Len(g) >= 8 THEN (IF s = <<>> THEN <<g, ell>> ELSE NoAddr)
    ELSE
    LET off == HexRun(s)
    IN  IF off > 4 \/ off = 0 THEN NoAddr
        ELSE IF off < Len(s) /\ s[off + 1] = "."
        THEN \* a trailing dotted quad
             IF (ell < 0 /\ Len(g) # 6) \/ Len(g) + 2 > 8 THEN NoAddr
             ELSE LET o == parseIPv4Fields(s)
                  IN  IF o = NoAddr THEN NoAddr
                      ELSE <<g \o <<o[1] * 256 + o[2], o[3] * 256 + o[4]>>, ell>>
        ELSE
        LET g2 == Append(g, HexNum(SubSeq(s, 1, off)))
            s2 == SubSeq(s, off + 1, Len(s))
        IN  IF s2 = <<>> THEN <<g2, ell>>
            ELSE IF s2[1] # ":" \/ Len(s2) = 1 THEN NoAddr
            ELSE LET s3 == Tail(s2)
                 IN  IF s3[1] = ":"
                     THEN IF ell >= 0 THEN NoAddr
                          ELSE IF Len(s3) = 1 THEN <<g2, Len(g2)>>
                          ELSE parseIPv6Loop(Tail(s3), g2, Len(g2))
                     ELSE parseIPv6Loop(s3, g2, ell)

Zeros(n) == [i \in 1..n |-> 0]

\* netip.parseIPv6 (a zone is refused by every caller here): 8 groups, or NoAddr.
parseIPv6(s) ==
    LET lead == Len(s) >= 2 /\ s[1] = ":" /\ s[2] = ":"
        rest == IF lead THEN SubSeq(s, 3, Len(s)) ELSE s
        r    == IF lead /\ rest = <<>> THEN <<<<>>, 0>>
                ELSE parseIPv6Loop(rest, <<>>, IF lead THEN 0 ELSE -1)
    IN  IF r = NoAddr THEN NoAddr
        ELSE LET g == r[1]
                 ell == r[2]
             IN  IF Len(g) < 8
                 THEN IF ell < 0 THEN NoAddr
                      ELSE SubSeq(g, 1, ell) \o Zeros(8 - Len(g))
                             \o SubSeq(g, ell + 1, Len(g))
                 ELSE IF ell >= 0 THEN NoAddr ELSE g

\* Which parser netip.ParseAddr hands the string to: decided by the first
\* of '.', ':' and '%' in it.
addrKind(s) ==
    LET special == {i \in 1..Len(s) : s[i] \in {".", ":", "%"}}
    IN  IF special = {} THEN "none"
        ELSE LET i == CHOOSE k \in special : \A j \in special : k <= j
             IN  IF s[i] = "." THEN "v4" ELSE IF s[i] = ":" THEN "v6" ELSE "zone"

\* net.ParseIP: the 16-byte form of a textual IPv4 or IPv6 address, or NoAddr.
ParseIP(s) ==
    IF IndexByte(s, "%") # 0 THEN NoAddr
    ELSE IF addrKind(s) = "v4"
         THEN LET o == parseIPv4Fields(s) IN IF o = NoAddr THEN NoAddr ELSE As16(o)
    ELSE IF addrKind(s) = "v6" THEN parseIPv6(s)
    ELSE NoAddr

\* IP.To4: the last two groups of an IPv4-mapped address, else NoAddr.
To4(ip) ==
    IF Len(ip) = 2 THEN ip
    ELSE IF SubSeq(ip, 1, 6) = v4InV6Prefix THEN SubSeq(ip, 7, 8)
    ELSE NoAddr

\* How many leading bits of group i a prefix of the given length covers.
groupBits(ones, i) ==
    LET k == ones - 16 * (i - 1) IN IF k < 0 THEN 0 ELSE IF k > 16 THEN 16 ELSE k
\* A 16-bit group ANDed with the k leading one bits.
maskGroup(v, k) == (v \div Pow2(16 - k)) * Pow2(16 - k)

NoNet == [ok |-> FALSE]

\* net.ParseCIDR: the network of "address/prefix-length", or NoNet.
\* IP is the masked network number (4 bytes for a dotted address), bits the
\* width of the mask and ones its prefix length.
ParseCIDR(s) ==
    LET cut == IndexByte(s, "/")
        addr == SubSeq(s, 1, cut - 1)
        mask == SubSeq(s, cut + 1, Len(s))
        is4 == addrKind(addr) = "v4"
        ip == ParseIP(addr)
        bits == IF is4 THEN 32 ELSE 128
        maskOK == /\ mask # <<>>
                  /\ \A i \in 1..Len(mask) : IsDigit(mask[i])
                  /\ Len(mask) <= 9
                  /\ DecVal(mask) <= bits
    IN  IF cut = 0 \/ ip = NoAddr \/ ~maskOK THEN NoNet
        ELSE LET n == DecVal(mask)
                 base == IF is4 THEN SubSeq(ip, 7, 8) ELSE ip
             IN  [ok |-> TRUE,
                  IP |-> [i \in 1..Len(base) |-> maskGroup(base[i], groupBits(n, i))],
                  ones |-> n,
                  bits |-> bits]

\* IPNet.Contains.
Contains(n, ip) ==
    LET n4 == To4(n.IP)
        nn == IF n4 # NoAddr THEN n4 ELSE n.IP
        \* a 16-byte mask over a 4-byte network number: its last 4 bytes
        shift == IF n.bits = 128 /\ Len(nn) = 2 THEN 6 ELSE 0
        x4 == To4(ip)
        x == IF x4 # NoAddr THEN x4 ELSE ip
    IN  /\ ~(n.bits = 32 /\ Len(nn) # 2)
        /\ Len(x) = Len(nn)
        /\ \A i \in 1..Len(x) :
              maskGroup(nn[i], groupBits(n.ones, i + shift))
                = maskGroup(x[i], groupBits(n.ones, i + shift))

\* net.SplitHostPort: <<host>> when the string splits into host and port,
\* <<>> when it returns an error.
SplitHostPort(hostport) ==
    LET i == LastIndexByte(hostport, ":")
        end == IndexByte(hostport, "]")
        bracket == hostport[1] = "["
        host == IF bracket THEN SubSeq(hostport, 2, end - 1)
                ELSE SubSeq(hostport, 1, i - 1)
        j == IF bracket THEN 2 ELSE 1
        k == IF bracket THEN end + 1 ELSE 1
    IN  IF i = 0 THEN <<>>
        ELSE IF bracket /\ (end = 0 \/ end + 1 # i) THEN <<>>
        ELSE IF ~bracket /\ IndexByte(host, ":") # 0 THEN <<>>
        ELSE IF IndexByte(SubSeq(hostport, j, Len(hostport)), "[") # 0 THEN <<>>
        ELSE IF IndexByte(SubSeq(hostport, k, Len(hostport)), "]") # 0 THEN <<>>
        ELSE <<host>>

\* ------------------------------------------------------------- signatures

Lower == <<"a", "b", "c", "d", "e", "f", "g", "h", "i", "j", "k", "l", "m",
           "n", "o", "p", "q", "r", "s", "t", "u", "v", "w", "x", "y", "z">>
\* The byte of a digit or a lowercase letter (ASCII).
ByteOf(c) ==
    IF IsDigit(c) THEN 48 + HexVal(c)
    ELSE 96 + (CHOOSE i \in 1..26 : Lower[i] = c)
\* []byte(s)
Bytes(s) == [i \in 1..Len(s) |-> ByteOf(s[i])]

\* hex.EncodeToString: two lowercase hex digits per byte.
RECURSIVE EncodeToString(_)
EncodeToString(b) ==
    IF b = <<>> THEN <<>>
    ELSE <<HexLower[(b[1] \div 16) + 1], HexLower[(b[1] % 16) + 1]>>
           \o EncodeToString(Tail(b))

\* The hash constructors a Digest can be.
Algorithms == {"md5", "sha256"}

\* hash.Hash: an accumulator of the bytes written to it.
NewHash(alg) == [alg |-> alg, written |-> <<>>]
Write(h, p) == [h EXCEPT !.written = @ \o p]

RECURSIVE mix(_, _)
mix(seed, p) == IF p = <<>> THEN seed ELSE mix((seed * 33 + p[1]) % 256, Tail(p))
\* Hash.Sum(nil). The digest value is a stand-in for the library's
\* algorithms: a function of the algorithm and of the bytes written, of a
\* length fixed by the algorithm.
Sum(h) ==
    IF h.alg = "md5" THEN <<mix(1, h.written), mix(2, h.written)>>
    ELSE <<mix(3, h.written), mix(5, h.written), mix(7, h.written)>>
\* md5.Sum(data)
md5Sum(data) == Sum(Write(NewHash("md5"), data))

NoSig == [fn |-> "none", data |-> <<>>, digest |-> "nil", out |-> <<>>]

GenerateWithDigestSharedHash(data, d) ==
    LET h == [alg |-> IF d = "nil" THEN "md5" ELSE d, written |-> Bytes(sig.data)]
    IN  EncodeToString(Sum(Write(h, Bytes(data))))

\* signature.GenerateWithDigest
GenerateWithDigest(data, d) ==
    IF d = "nil" THEN EncodeToString(md5Sum(Bytes(data)))
    ELSE LET h == NewHash(d)
         IN  EncodeToString(Sum(Write(h, Bytes(data))))

\* signature.Generate
Generate(data) == GenerateWithDigest(data, "nil")

\* Client.GenerateSignature
GenerateSignature(data) == GenerateWithDigest(data, digest)

RECURSIVE Xor(_, _)
Xor(a, b) == IF a = 0 /\ b = 0 THEN 0
             ELSE ((a + b) % 2) + 2 * Xor(a \div 2, b \div 2)
RECURSIVE Or(_, _)
Or(a, b) == IF a = 0 /\ b = 0 THEN 0
            ELSE (IF a % 2 = 1 \/ b % 2 = 1 THEN 1 ELSE 0) + 2 * Or(a \div 2, b \div 2)

RECURSIVE orOfXors(_, _)
\* The loop of subtle.ConstantTimeCompare: v |= x[i] ^ y[i], over every byte.
orOfXors(x, y) ==
    IF x = <<>> THEN 0 ELSE Or(Xor(x[1], y[1]), orOfXors(Tail(x), Tail(y)))
\* subtle.ConstantTimeCompare: 1 when the slices are equal, else 0.
ConstantTimeCompare(x, y) ==
    IF Len(x) # Len(y) THEN 0
    ELSE IF orOfXors(x, y) = 0 THEN 1 ELSE 0

VerifyCommonPrefix(e, a) ==
    LET n == IF Len(e) < Len(a) THEN Len(e) ELSE Len(a)
    IN  ConstantTimeCompare(SubSeq(Bytes(e), 1, n), SubSeq(Bytes(a), 1, n)) = 1

\* signature.Verify
Verify(e, a) == ConstantTimeCompare(Bytes(e), Bytes(a)) = 1

\* Client.VerifySignature
VerifySignature(e, a) == Verify(e, a)

\* ------------------------------------------------------- callback allow-list

RECURSIVE parsedNetsKeepLast(_)
parsedNetsKeepLast(list) ==
    IF list = <<>> THEN <<>>
    ELSE LET n == ParseCIDR(list[1])
             rest == parsedNetsKeepLast(Tail(list))
         IN  IF rest # <<>> THEN rest ELSE IF n.ok THEN <<n>> ELSE <<>>

RECURSIVE parsedNets(_)
parsedNets(list) ==
    IF list = <<>> THEN <<>>
    ELSE LET n == ParseCIDR(list[1])
         IN  (IF n.ok THEN <<n>> ELSE <<>>) \o parsedNets(Tail(list))

RECURSIVE parsedAddrs(_)
parsedAddrs(list) ==
    IF list = <<>> THEN <<>>
    ELSE LET n == ParseCIDR(list[1])
             a == ParseIP(list[1])
         IN  (IF ~n.ok /\ a # NoAddr THEN <<a>> ELSE <<>>) \o parsedAddrs(Tail(list))

parseIPWhitelistAppending(list) ==
    /\ parsedIPNets' = parsedIPNets \o parsedNets(list)
    /\ parsedIPs' = parsedIPs \o parsedAddrs(list)

\* parseIPWhitelist: both parsed lists are rebuilt from CallbackIPWhitelist;
\* a string is tried as a CIDR range first, then as a single address, and
\* dropped when it is neither.
parseIPWhitelist(list) ==
    /\ parsedIPNets' = parsedNets(list)
    /\ parsedIPs' = parsedAddrs(list)

\* WithCallbackIPWhitelist: store the strings, then parse them.
WithCallbackIPWhitelist(ips) ==
    /\ ApplyingOptions
    /\ CallbackIPWhitelist' = ips
    /\ parseIPWhitelist(ips)
    /\ nopts' = nopts + 1
    /\ UNCHANGED <<Retries, RetryWaitMin, RetryWaitMax, built>>

stripPortDottedOnly(s) ==
    LET i == LastIndexByte(s, ":")
    IN  IF i # 0 /\ IndexByte(s, ":") = i THEN SubSeq(s, 1, i - 1) ELSE s

\* The candidate without its port: the host SplitHostPort finds, or the
\* candidate itself when SplitHostPort fails.
stripPort(s) ==
    LET hp == SplitHostPort(s) IN IF hp # <<>> THEN hp[1] ELSE s

IsIPWhitelistedNoEmptyCheck(s) ==
    LET ip == ParseIP(stripPort(s))
    IN  /\ ip # NoAddr
        /\ \/ \E i \in 1..Len(parsedIPs) : parsedIPs[i] = ip
           \/ \E i \in 1..Len(parsedIPNets) : Contains(parsedIPNets[i], ip)

\* IsIPWhitelisted.
IsIPWhitelisted(s) ==
    IF Len(CallbackIPWhitelist) = 0 THEN TRUE
    ELSE LET ip == ParseIP(stripPort(s))
         IN  /\ ip # NoAddr
             /\ \/ \E i \in 1..Len(parsedIPs) : parsedIPs[i] = ip
                \/ \E i \in 1..Len(parsedIPNets) : Contains(parsedIPNets[i], ip)

VerifyCallbackIPMembershipFirst(s) ==
    IF Len(CallbackIPWhitelist) = 0 THEN "nil"
    ELSE IF ~IsIPWhitelisted(s) THEN "ErrIPNotWhitelisted"
    ELSE IF ParseIP(stripPort(s)) = NoAddr THEN "ErrInvalidIPAddress"
    ELSE "nil"

VerifyCallbackIPSingleReason(s) ==
    IF Len(CallbackIPWhitelist) = 0 THEN "nil"
    ELSE IF ParseIP(stripPort(s)) = NoAddr THEN "ErrInvalidIPAddress"
    ELSE IF ~IsIPWhitelisted(s) THEN "ErrInvalidSignature"
    ELSE "nil"

VerifyCallbackIPNoEmptyCheck(s) ==
    IF ParseIP(stripPort(s)) = NoAddr THEN "ErrInvalidIPAddress"
    ELSE IF ~IsIPWhitelisted(s) THEN "ErrIPNotWhitelisted"
    ELSE "nil"

\* VerifyCallbackIP: the error it returns ("nil": none).
VerifyCallbackIP(s) ==
    IF Len(CallbackIPWhitelist) = 0 THEN "nil"
    ELSE IF ParseIP(stripPort(s)) = NoAddr THEN "ErrInvalidIPAddress"
    ELSE IF ~IsIPWhitelisted(s) THEN "ErrIPNotWhitelisted"
    ELSE "nil"

\* The severity an event of the executor is logged at.
Level(ev) ==
    CASE ev = "sending" -> "debug"
      [] ev = "retry" -> "warn"
      [] ev = "completed" -> "info"
      [] ev = "failed" -> "error"

\* ----------------------------------------------------- callback verification
\* A callback is its fields, concatenated in the order of the wire
\* contract, and the signature it carries.

\* client.New("auth", "secret"): Client.SecretKey.
DocSecretKey == <<"s", "e", "c", "r", "e", "t">>

\* VerifyCallback: the signature is recomputed over the fields and the
\* secret key and compared with the one the callback carries.
VerifyCallback(cb) ==
    IF VerifySignature(GenerateSignature(cb.fields \o DocSecretKey), cb.signature)
    THEN "nil"
    ELSE "ErrInvalidSignature"

VerifyCallbackWithIPSignatureFirst(cb, ip) ==
    LET e == VerifyCallback(cb)
    IN  IF e # "nil" THEN e ELSE VerifyCallbackIP(ip)

\* VerifyCallbackWithIP: the source address is checked against the
\* allow-list, then the signature.
VerifyCallbackWithIP(cb, ip) ==
    IF VerifyCallbackIP(ip) # "nil"
    THEN VerifyCallbackIP(ip)
    ELSE VerifyCallback(cb)

\* --------------------------------------------------------- response decoding
\* A response body is told by what the decoder asks of it: whether it has
\* zero length, whether its outer envelope parses, and whether the data
\* string of the envelope parses into the target shape.
Bodies == {
    [empty |-> TRUE, envelope |-> FALSE, data |-> FALSE],
    [empty |-> FALSE, envelope |-> FALSE, data |-> FALSE],
    [empty |-> FALSE, envelope |-> TRUE, data |-> FALSE],
    [empty |-> FALSE, envelope |-> TRUE, data |-> TRUE]
}

DecodeParseFirst(raw) ==
    IF ~raw.envelope THEN "ErrInvalidJSON"
    ELSE IF raw.empty THEN "ErrEmptyResponse"
    ELSE "nil"

\* Decoding of the outer envelope: the error it ends with.
Decode(raw) ==
    IF raw.empty THEN "ErrEmptyResponse"
    ELSE IF ~raw.envelope THEN "ErrInvalidJSON"
    ELSE "nil"

\* ParseData: the second parse, of the envelope's data string.
ParseData(raw) == IF raw.data THEN "nil" ELSE "InvalidInnerJSON"

\* ---------------------------------------------------------------- QR codes
\* A content is told by its length in bytes.

\* goqrcode.New: the bytes a QR code holds at most, by recovery level; a
\* longer content is rejected ("content too long").
maxBytes == [Low |-> 2953, Medium |-> 2331, High |-> 1663, Highest |-> 1273]

\* QR.Encode: the sentinel the returned error matches ("nil": no error).
Encode(n) ==
    IF n = 0 THEN "ErrEmptyQRContent"
    ELSE IF n > maxBytes[qrLevel] THEN "ErrEmptyQRContent"
    ELSE "nil"

\* ------------------------------------------------------------------ amounts

RECURSIVE SprintfD(_)
\* fmt.Sprintf("%d", amount): a minus sign for a negative amount, then the
\* decimal digits.
SprintfD(amount) ==
    IF amount < 0 THEN <<"-">> \o SprintfD(-amount)
    ELSE IF amount < 10 THEN <<Digits[amount + 1]>>
    ELSE Append(SprintfD(amount \div 10), Digits[(amount % 10) + 1])

RECURSIVE writeGroups(_, _, _)
\* The loop of FormatAmountIDR: three characters of str at a time from i,
\* a "." before each group but the one at remainder.
writeGroups(str, i, remainder) ==
    IF i >= Len(str) THEN <<>>
    ELSE (IF i > remainder THEN <<".">> ELSE <<>>)
         \o SubSeq(str, i + 1, i + 3) \o writeGroups(str, i + 3, remainder)

\* FormatAmountIDR
FormatAmountIDR(amount) ==
    LET str == SprintfD(amount)
        n == Len(str)
        remainder == n % 3
    IN  IF n <= 3 THEN <<"R", "p", " ">> \o str
        ELSE <<"R", "p", " ">> \o (IF remainder > 0 THEN SubSeq(str, 1, remainder) \o <<".">> ELSE <<>>)
                \o writeGroups(str, remainder, remainder)

\* ------------------------------------------------- endpoints in logs and errors

RECURSIVE Join(_, _)
\* strings.Join
Join(parts, sep) ==
    IF Len(parts) = 0 THEN <<>>
    ELSE IF Len(parts) = 1 THEN parts[1]
    ELSE parts[1] \o <<sep>> \o Join(Tail(parts), sep)

Redacted == <<"[", "R", "E", "D", "A", "C", "T", "E", "D", "]">>
Operator == <<"o", "p", "e", "r", "a", "t", "o", "r">>
Operators == <<"o", "p", "e", "r", "a", "t", "o", "r", "s">>

EndpointPluralOnly(endpoint) ==
    LET parts == Split(endpoint, "/")
        hits == {i \in 1..(Len(parts) - 1) :
                    parts[i] = Operators /\ Len(parts[i + 1]) > 0}
    IN  IF hits = {} THEN endpoint
        ELSE LET i == CHOOSE k \in hits : \A j \in hits : k <= j
             IN  Join([parts EXCEPT ![i + 1] = Redacted], "/")

\* sanitize.Endpoint: the part after the first "operator" or "operators"
\* part that is followed by a non-empty part is replaced.
Endpoint(endpoint) ==
    LET parts == Split(endpoint, "/")
        hits == {i \in 1..(Len(parts) - 1) :
                    parts[i] \in {Operator, Operators} /\ Len(parts[i + 1]) > 0}
    IN  IF hits = {} THEN endpoint
        ELSE LET i == CHOOSE k \in hits : \A j \in hits : k <= j
             IN  Join([parts EXCEPT ![i + 1] = Redacted], "/")

\* sanitize.Endpoint as src/internal/sanitize/sanitize.go has it: the part in
\* position 4 is replaced when the parts before it are "", or anything,
\* then "v2", "integrations" and "operator" or "operators".
EndpointAtPosition(endpoint) ==
    LET parts == Split(endpoint, "/")
    IN  IF /\ Len(parts) >= 5
           /\ parts[2] = <<"v", "2">>
           /\ parts[3] = <<"i", "n", "t", "e", "g", "r", "a", "t", "i", "o", "n", "s">>
           /\ Len(parts[5]) > 0
           /\ parts[4] \in {Operator, Operators}
        THEN Join([parts EXCEPT ![5] = Redacted], "/")
        ELSE endpoint

\* The endpoint patterns of the services, each cut at its %s.
EndpointPatterns == {
    <<<<"/", "v", "2", "/", "i", "n", "t", "e", "g", "r", "a", "t", "i", "o", "n", "s", "/", "o", "p", "e", "r", "a", "t", "o", "r", "/">>, <<"/", "g", "e", "t", "/", "b", "a", "l", "a", "n", "c", "e">>>>,
    <<<<"/", "v", "2", "/", "i", "n", "t", "e", "g", "r", "a", "t", "i", "o", "n", "s", "/", "o", "p", "e", "r", "a", "t", "o", "r", "s", "/">>, <<"/", "i", "d", "r", "/", "p", "a", "y", "m", "e", "n", "t">>>>
}
\* fmt.Sprintf(pattern, key)
Sprintf(pattern, key) == pattern[1] \o key \o pattern[2]

\* The auth keys the model constructs clients with.
AuthKeys == {<<"a", "u", "t", "h">>, <<"o", "p", "e", "r", "a", "t", "o", "r", "s">>}

\* The endpoint as a log event shows it: raw in debug mode, else sanitized.
logView(endpoint) == IF Debug THEN endpoint ELSE Endpoint(endpoint)
\* The endpoint as the message of an APIError shows it.
errorView(endpoint) == Endpoint(endpoint)

\* The strings the model hands to WithCallbackIPWhitelist.
EntryStrings == {
    <<"1", "0", ".", "0", ".", "0", ".", "0", "/", "8">>,   \* 10.0.0.0/8
    <<"1", "9", "2", ".", "1", "6", "8", ".", "1", ".", "1">>,   \* 192.168.1.1
    <<"b", "o", "g", "u", "s">>,   \* bogus
    <<":", ":", "1">>,   \* ::1
    <<"f", "d", "0", "0", ":", ":", "/", "8">>   \* fd00::/8
}

\* The strings the model hands to IsIPWhitelisted and VerifyCallbackIP.
Candidates == {
    <<"1", "0", ".", "1", ".", "2", ".", "3">>,   \* 10.1.2.3
    <<"1", "1", ".", "1", ".", "2", ".", "3">>,   \* 11.1.2.3
    <<"1", "0", ".", "1", ".", "2", ".", "3", ":", "9", "9", "9", "9">>,   \* 10.1.2.3:9999
    <<"1", "9", "2", ".", "1", "6", "8", ".", "1", ".", "1">>,   \* 192.168.1.1
    <<":", ":", "1">>,   \* ::1
    <<"[", ":", ":", "1", "]", ":", "8", "0">>,   \* [::1]:80
    <<"f", "d", "0", "0", ":", ":", "2">>,   \* fd00::2
    <<"[", "f", "d", "0", "0", ":", ":", "2", "]", ":", "4", "4", "3">>,   \* [fd00::2]:443
    <<"n", "o", "t", "-", "a", "n", "-", "i", "p">>,   \* not-an-ip
    <<>>,   \* (the empty string)
    <<"0", "1", "0", ".", "1", ".", "2", ".", "3">>,   \* 010.1.2.3
    <<":", ":", "f", "f", "f", "f", ":", "1", "0", ".", "1", ".", "2", ".", "3">>   \* ::ffff:10.1.2.3
}

\* The field strings of the callbacks the model receives.
CallbackFields == {<<"a", "1">>, <<"b", "1">>}
\* The source addresses they arrive from.
CallbackSources == {
    <<"1", "0", ".", "1", ".", "2", ".", "3">>,
    <<"1", "1", ".", "1", ".", "2", ".", "3">>,
    <<"[", "f", "d", "0", "0", ":", ":", "2", "]", ":", "4", "4", "3">>,
    <<"n", "o", "t", "-", "a", "n", "-", "i", "p">>
}

RECURSIVE Strings(_, _)
\* Every string of at most n characters of the alphabet.
Strings(alphabet, n) ==
    IF n = 0 THEN {<<>>}
    ELSE Strings(alphabet, n - 1)
           \cup {Append(s, c) : s \in {x \in Strings(alphabet, n - 1) : Len(x) = n - 1},
                                c \in alphabet}

\* The messages the model signs, the empty one included.
Messages == Strings({"a", "b"}, MaxMsgLen)
\* The strings the model hands to Verify: of the characters of signatures.
SigStrings == Strings({"0", "a", "f"}, MaxSigLen)

\* client.New("auth", "secret"), as the tests write it.
DocAuthKey == <<"a", "u", "t", "h">>

\* The goroutines that use the client and the pool.
Goroutines == {1, 2}

RECURSIVE Lists(_)
\* Every list of at most n entry strings.
Lists(n) ==
    IF n = 0 THEN {<<>>}
    ELSE Lists(n - 1) \cup {Append(l, e) : l \in {x \in Lists(n - 1) : Len(x) = n - 1},
                                           e \in EntryStrings}

NoCall == <<"(none)">>

\* ------------------------------------------------------------ specification

InitExec ==
    /\ state = "Idle"
    /\ attempts = 0
    /\ waits = 0
    /\ wait = -1
    /\ remaining = 0
    /\ inflight = 0
    /\ outcomes = <<>>
    /\ canceled = FALSE
    /\ cancelMark = <<>>
    /\ class = "None"
    /\ events = <<>>

InitIP ==
    /\ ipStr = NoCall
    /\ whitelisted = FALSE
    /\ verifyErr = "nil"

InitSvc ==
    /\ sig = NoSig
    /\ prevSig = NoSig
    /\ expected = NoCall
    /\ actual = NoCall
    /\ verified = FALSE
    /\ callback = [fields |-> <<>>, signature |-> <<>>]
    /\ sourceIP = NoCall
    /\ callbackErr = "nil"
    /\ body = [empty |-> TRUE, envelope |-> FALSE, data |-> FALSE]
    /\ stage = "none"
    /\ decodeErr = "nil"
    /\ target = NoCall
    /\ observed = {}
    /\ qrContent = -1
    /\ qrErr = "nil"
    /\ idrAmount = 0
    /\ idrText = NoCall
    /\ rawEndpoint = NoCall
    /\ sanitized = NoCall
    /\ pooled = {}
    /\ buffers = [b \in 1..MaxBuffers |-> <<>>]
    /\ holds = [g \in Goroutines |-> {}]
    /\ got = [g \in Goroutines |-> [buf |-> 0, bytes |-> <<>>, put |-> NoCall]]
    /\ calls = [g \in Goroutines |->
                   [fn |-> "none", arg |-> <<>>, pc |-> "idle", ip |-> NoAddr, out |-> "none"]]

Init == NewWith(DocAuthKey) /\ qrLevel = "Medium" /\ InitExec /\ InitIP /\ InitSvc

SetRetries ==
    \E r \in -1..MaxRetries : WithRetries(r) /\ UNCHANGED <<execVars, ipVars, svcVars, auxVars>>
SetRetryWait ==
    \E mn \in 0..MaxWait, mx \in 0..MaxWait :
        WithRetryWait(mn, mx) /\ UNCHANGED <<execVars, ipVars, svcVars, auxVars>>
SetWhitelist ==
    \E ips \in Lists(MaxEntries) :
        WithCallbackIPWhitelist(ips) /\ UNCHANGED <<execVars, ipVars, svcVars, auxVars>>
Construct == Build /\ UNCHANGED <<execVars, ipVars, svcVars, auxVars>>
Begin == Start /\ UNCHANGED <<cfgVars, ipVars, svcVars, auxVars>>
Return ==
    \E o \in Outcomes, d \in BOOLEAN, j \in -MaxJitter..MaxJitter :
        TransportReturn(o, d, j) /\ UNCHANGED <<cfgVars, ipVars, svcVars, auxVars>>
Pass == Tick /\ UNCHANGED <<cfgVars, ipVars, svcVars, auxVars>>
Elapse == WaitElapsed /\ UNCHANGED <<cfgVars, ipVars, svcVars, auxVars>>
Abort == WaitCanceled /\ UNCHANGED <<cfgVars, ipVars, svcVars, auxVars>>
CancelCtx == Cancel /\ UNCHANGED <<cfgVars, ipVars, svcVars, auxVars>>

\* A callback handler asks the built client about the callback's source
\* address, through IsIPWhitelisted and through VerifyCallbackIP.
CheckSource ==
    \E s \in Candidates :
        /\ built
        /\ ipStr' = s
        /\ whitelisted' = IsIPWhitelisted(s)
        /\ verifyErr' = VerifyCallbackIP(s)
        /\ UNCHANGED <<cfgVars, execVars, svcVars, auxVars>>

SetDigest ==
    \E d \in {"nil"} \cup Algorithms :
        WithDigest(d) /\ UNCHANGED <<execVars, ipVars, sigVars, cmpVars, cbVars, decVars, logVars, auxVars>>

Signed(fn, m, d, out) ==
    /\ sig' = [fn |-> fn, data |-> m, digest |-> d, out |-> out]
    /\ prevSig' = sig
    /\ UNCHANGED <<cfgVars, execVars, ipVars, optVars, cmpVars, cbVars, decVars, logVars, auxVars>>

\* A caller signs a message with a digest of its choice, with the default
\* digest, and through the built client.
Sign ==
    \E m \in Messages, d \in {"nil"} \cup Algorithms :
        Signed("GenerateWithDigest", m, d, GenerateWithDigest(m, d))
SignDefault ==
    \E m \in Messages : Signed("Generate", m, "nil", Generate(m))
SignClient ==
    \E m \in Messages :
        built /\ Signed("GenerateSignature", m, digest, GenerateSignature(m))

\* A caller compares two signatures.
Compare ==
    \E e \in SigStrings, a \in SigStrings :
        /\ expected' = e
        /\ actual' = a
        /\ verified' = Verify(e, a)
        /\ UNCHANGED <<cfgVars, execVars, ipVars, optVars, sigVars, cbVars, decVars, logVars, auxVars>>

\* A callback arrives: its sender signed some fields with the secret key and
\* MD5; the fields it carries may be those or others.
ReceiveCallback ==
    \E f \in CallbackFields, g \in CallbackFields, ip \in CallbackSources :
        /\ built
        /\ callback' = [fields |-> f,
                        signature |-> GenerateWithDigest(g \o DocSecretKey, "nil")]
        /\ sourceIP' = ip
        /\ callbackErr' = VerifyCallbackWithIP(callback', ip)
        /\ UNCHANGED <<cfgVars, execVars, ipVars, optVars, sigVars, cmpVars, decVars, logVars, auxVars>>

\* The call has handed a response to the caller: its body is decoded. A
\* 4xx response ended the call Succeeded because its body was decodable.
DecodeEnvelope ==
    \E b \in Bodies :
        /\ state = "Succeeded"
        /\ stage = "none"
        /\ outcomes[Len(outcomes)] = "http4xx" => b.envelope
        /\ body' = b
        /\ decodeErr' = Decode(b)
        /\ stage' = "envelope"
        /\ UNCHANGED <<cfgVars, execVars, ipVars, optVars, sigVars, cmpVars, cbVars, logVars, auxVars>>

\* The service parses the data of the decoded envelope.
ParseInner ==
    /\ stage = "envelope"
    /\ decodeErr = "nil"
    /\ decodeErr' = ParseData(body)
    /\ stage' = "data"
    /\ UNCHANGED body
    /\ UNCHANGED <<cfgVars, execVars, ipVars, optVars, sigVars, cmpVars, cbVars, logVars, auxVars>>

SetDebug ==
    \E b \in BOOLEAN :
        WithDebug(b) /\ UNCHANGED <<execVars, ipVars, sigVars, cmpVars, cbVars, decVars, logVars, auxVars>>
SetLogger ==
    \E l \in {"nil", "Default", "Custom"} :
        WithLogger(l) /\ UNCHANGED <<execVars, ipVars, sigVars, cmpVars, cbVars, decVars, logVars, auxVars>>

\* What a step of the call makes observable: the endpoint in the log event
\* it emits, if a logger is set, and in the error the call fails with.
NewObservations ==
    (IF logger # "Nop" /\ Len(events') > Len(events)
     THEN {[kind |-> "log", endpoint |-> logView(target')]} ELSE {})
    \cup (IF state' = "Failed" /\ state # "Failed"
          THEN {[kind |-> "error", endpoint |-> errorView(target')]} ELSE {})

Logged(step) ==
    /\ step
    /\ target' = target
    /\ observed' = observed \cup NewObservations
    /\ UNCHANGED <<cfgVars, ipVars, optVars, sigVars, cmpVars, cbVars, decVars, auxVars>>

\* A service starts a call on its endpoint, built from the auth key.
BeginLogged ==
    \E p \in EndpointPatterns :
        /\ Start
        /\ target' = Sprintf(p, AuthKey)
        /\ observed' = observed \cup NewObservations
        /\ UNCHANGED <<cfgVars, ipVars, optVars, sigVars, cmpVars, cbVars, decVars, auxVars>>
ReturnLogged ==
    \E o \in Outcomes, d \in BOOLEAN, j \in -MaxJitter..MaxJitter :
        Logged(TransportReturn(o, d, j))
PassLogged == Logged(Tick)
ElapseLogged == Logged(WaitElapsed)
AbortLogged == Logged(WaitCanceled)
CancelLogged == Logged(Cancel)

\* A caller encodes a content: empty, short, at the capacity of some level,
\* just above it, or 5000 bytes long.
EncodeQR ==
    \E n \in (0..MaxContent) \cup {maxBytes[l] + d : l \in DOMAIN maxBytes, d \in {0, 1}}
                \cup {5000} :
        /\ built
        /\ qrContent' = n
        /\ qrErr' = Encode(n)
        /\ UNCHANGED <<cfgVars, execVars, ipVars, svcVars, Timeout, qrLevel, applied>>
        /\ UNCHANGED <<idrAmount, idrText, rawEndpoint, sanitized, pooled, buffers,
                       holds, got, calls>>

\* A caller formats an amount: a small one, or one of some longer ones.
FormatIDR ==
    \E a \in (-MaxAmount..MaxAmount)
                \cup {s * v : s \in {-1, 1},
                              v \in {999, 1000, 50000, 100000, 999999, 1000000,
                                     12345678, 123456789, 2147483647}} :
        /\ idrAmount' = a
        /\ idrText' = FormatAmountIDR(a)
        /\ UNCHANGED <<cfgVars, execVars, ipVars, svcVars, Timeout, qrLevel, applied>>
        /\ UNCHANGED <<qrContent, qrErr, rawEndpoint, sanitized, pooled, buffers,
                       holds, got, calls>>

\* A caller sanitizes an endpoint: some leading parts, then possibly
\* "operator" or "operators", a key and some trailing parts.
SanitizeEndpoint ==
    \E e \in
      {Join(pre \o op \o key \o suf, "/") :
          pre \in {<<>>, <<<<>>>>, <<<<>>, <<"v", "2">>, <<"i", "n", "t", "e", "g", "r", "a", "t", "i", "o", "n", "s">>>>,
                   <<<<"v", "2">>, <<"i", "n", "t", "e", "g", "r", "a", "t", "i", "o", "n", "s">>>>,
                   <<<<"s", "i", "t", "e", ".", "c", "o", "m">>, <<>>, <<"v", "2">>, <<"i", "n", "t", "e", "g", "r", "a", "t", "i", "o", "n", "s">>>>,
                   <<<<>>, <<"v", "1">>, <<"o", "t", "h", "e", "r">>>>},
          op \in {<<>>, <<Operator>>, <<Operators>>, <<<<"o", "p", "e", "r", "a", "t", "o", "r", "x">>>>},
          key \in {<<>>, <<<<>>>>, <<<<"s", "e", "c", "r", "e", "t", "1", "2", "3">>>>, <<Operators>>},
          suf \in {<<>>, <<<<"i", "d", "r">>, <<"p", "a", "y", "m", "e", "n", "t", "?", "f", "o", "o", "=", "b", "a", "r">>>>, <<Operator, <<"x">>>>}} :
        /\ rawEndpoint' = e
        /\ sanitized' = EndpointAtPosition(e)
        /\ UNCHANGED <<cfgVars, execVars, ipVars, svcVars, Timeout, qrLevel, applied>>
        /\ UNCHANGED <<qrContent, qrErr, idrAmount, idrText, pooled, buffers,
                       holds, got, calls>>

\* New applies an option, and the model remembers which.
ApplyRetries ==
    \E r \in -1..MaxRetries :
        /\ WithRetries(r)
        /\ applied' = Append(applied, [opt |-> "WithRetries", arg |-> r])
        /\ UNCHANGED <<execVars, ipVars, svcVars, Timeout, qrLevel>>
        /\ UNCHANGED <<qrContent, qrErr, idrAmount, idrText, rawEndpoint, sanitized,
                       pooled, buffers, holds, got, calls>>
\* The durations tried: negative, zero, just below 5 seconds, 5 seconds
\* and one minute.
ApplyTimeout ==
    \E t \in {-1, 0, MinTimeout - 1, MinTimeout, 2 * DefaultTimeout} :
        /\ WithTimeout(t)
        /\ applied' = Append(applied, [opt |-> "WithTimeout", arg |-> t])
        /\ UNCHANGED <<execVars, ipVars, svcVars, qrLevel>>
        /\ UNCHANGED <<qrContent, qrErr, idrAmount, idrText, rawEndpoint, sanitized,
                       pooled, buffers, holds, got, calls>>
ApplyDebug ==
    \E b \in BOOLEAN :
        /\ WithDebug(b)
        /\ applied' = Append(applied, [opt |-> "WithDebug", arg |-> b])
        /\ UNCHANGED <<execVars, ipVars, sigVars, cmpVars, cbVars, decVars, logVars>>
        /\ UNCHANGED <<Timeout, qrLevel>>
        /\ UNCHANGED <<qrContent, qrErr, idrAmount, idrText, rawEndpoint, sanitized,
                       pooled, buffers, holds, got, calls>>
ApplyLogger ==
    \E l \in {"nil", "Nop", "Default", "Custom"} :
        /\ WithLogger(l)
        /\ applied' = Append(applied, [opt |-> "WithLogger", arg |-> l])
        /\ UNCHANGED <<execVars, ipVars, sigVars, cmpVars, cbVars, decVars, logVars>>
        /\ UNCHANGED <<Timeout, qrLevel>>
        /\ UNCHANGED <<qrContent, qrErr, idrAmount, idrText, rawEndpoint, sanitized,
                       pooled, buffers, holds, got, calls>>

\* gc.Default.Get(): a buffer taken out of the pool or, when the pool gives
\* none, a new one.
Get ==
    \E g \in Goroutines, b \in 1..MaxBuffers :
        /\ \/ \E p \in pooled :
                 /\ p[1] = b
                 /\ pooled' = pooled \ {p}
                 /\ got' = [got EXCEPT ![g] = [buf |-> b, bytes |-> buffers[b], put |-> p[2]]]
                 /\ UNCHANGED buffers
           \/ /\ \A p \in pooled : p[1] # b
              /\ \A h \in Goroutines : b \notin holds[h]
              /\ buffers' = [buffers EXCEPT ![b] = <<>>]
              /\ got' = [got EXCEPT ![g] = [buf |-> b, bytes |-> <<>>, put |-> NoCall]]
              /\ UNCHANGED pooled
        /\ holds' = [holds EXCEPT ![g] = @ \cup {b}]
        /\ UNCHANGED <<cfgVars, execVars, ipVars, svcVars, Timeout, qrLevel, applied>>
        /\ UNCHANGED <<qrContent, qrErr, idrAmount, idrText, rawEndpoint, sanitized, calls>>

\* buf.WriteString(...) by the goroutine that holds the buffer.
WriteString ==
    \E g \in Goroutines :
        \E b \in holds[g] :
            /\ Len(buffers[b]) < MaxBufLen
            /\ buffers' = [buffers EXCEPT ![b] = Append(@, "x")]
            /\ UNCHANGED <<pooled, holds, got>>
            /\ UNCHANGED <<cfgVars, execVars, ipVars, svcVars, Timeout, qrLevel, applied>>
            /\ UNCHANGED <<qrContent, qrErr, idrAmount, idrText, rawEndpoint, sanitized, calls>>

\* buf.Reset() by the goroutine that holds the buffer.
Reset ==
    \E g \in Goroutines :
        \E b \in holds[g] :
            /\ buffers' = [buffers EXCEPT ![b] = <<>>]
            /\ UNCHANGED <<pooled, holds, got>>
            /\ UNCHANGED <<cfgVars, execVars, ipVars, svcVars, Timeout, qrLevel, applied>>
            /\ UNCHANGED <<qrContent, qrErr, idrAmount, idrText, rawEndpoint, sanitized, calls>>

\* Put that stores the buffer as it is.
PutWithoutReset ==
    \E g \in Goroutines :
        \E b \in holds[g] :
            /\ pooled' \in {pooled \cup {<<b, buffers[b]>>}, pooled}
            /\ holds' = [holds EXCEPT ![g] = @ \ {b}]
            /\ UNCHANGED <<buffers, got>>
            /\ UNCHANGED <<cfgVars, execVars, ipVars, svcVars, Timeout, qrLevel, applied>>
            /\ UNCHANGED <<qrContent, qrErr, idrAmount, idrText, rawEndpoint, sanitized, calls>>

\* gc.Default.Put(buf): the buffer is reset, then stored in the pool, which
\* is free to drop it.
Put ==
    \E g \in Goroutines :
        \E b \in holds[g] :
            /\ buffers' = [buffers EXCEPT ![b] = <<>>]
            /\ pooled' \in {pooled \cup {<<b, buffers[b]>>}, pooled}
            /\ holds' = [holds EXCEPT ![g] = @ \ {b}]
            /\ UNCHANGED got
            /\ UNCHANGED <<cfgVars, execVars, ipVars, svcVars, Timeout, qrLevel, applied>>
            /\ UNCHANGED <<qrContent, qrErr, idrAmount, idrText, rawEndpoint, sanitized, calls>>

\* A goroutine calls a method of the built client.
Enter ==
    \E g \in Goroutines :
        \E c \in ({"IsIPWhitelisted", "VerifyCallbackIP"}
                      \X {<<"1", "0", ".", "1", ".", "2", ".", "3", ":", "9", "9", "9", "9">>, <<"1", "1", ".", "1", ".", "2", ".", "3">>, <<"n", "o", "t", "-", "a", "n", "-", "i", "p">>})
                 \cup ({"GenerateSignature"} \X {<<"a">>})
                 \cup ({"VerifySignature"} \X {<<<<"0", "f">>, <<"0", "f">>>>, <<<<"0", "f">>, <<"0", "a">>>>}) :
            /\ built
            /\ calls[g].pc = "idle"
            /\ calls' = [calls EXCEPT ![g] = [fn |-> c[1], arg |-> c[2], pc |-> "entry",
                                              ip |-> NoAddr, out |-> "none"]]
            /\ UNCHANGED <<cfgVars, execVars, ipVars, svcVars, Timeout, qrLevel, applied>>
            /\ UNCHANGED <<qrContent, qrErr, idrAmount, idrText, rawEndpoint, sanitized,
                           pooled, buffers, holds, got>>

\* IsIPWhitelisted and VerifyCallbackIP up to the loops: the length of
\* CallbackIPWhitelist is read, then the argument is parsed.  VerifyCallbackIP
\* goes through this twice, on its own account and inside IsIPWhitelisted.
checkLen ==
    \E g \in Goroutines :
        LET c == calls[g]
            ok == IF c.fn = "IsIPWhitelisted" THEN TRUE ELSE "nil"
            bad == IF c.fn = "IsIPWhitelisted" THEN FALSE ELSE "ErrInvalidIPAddress"
        IN  /\ c.fn \in {"IsIPWhitelisted", "VerifyCallbackIP"}
            /\ c.pc \in {"entry", "IsIPWhitelisted"}
            /\ calls' = [calls EXCEPT ![g] =
                   IF Len(CallbackIPWhitelist) = 0
                   THEN [c EXCEPT !.pc = "done", !.out = ok]
                   ELSE IF ParseIP(stripPort(c.arg)) = NoAddr
                   THEN [c EXCEPT !.pc = "done", !.out = bad]
                   ELSE IF c.fn = "VerifyCallbackIP" /\ c.pc = "entry"
                   THEN [c EXCEPT !.pc = "IsIPWhitelisted"]
                   ELSE [c EXCEPT !.pc = "range", !.ip = ParseIP(stripPort(c.arg))]]
            /\ UNCHANGED <<cfgVars, execVars, ipVars, svcVars, Timeout, qrLevel, applied>>
            /\ UNCHANGED <<qrContent, qrErr, idrAmount, idrText, rawEndpoint, sanitized,
                           pooled, buffers, holds, got>>

\* The loops with a hit remembered at the head of the addresses.
rangeEntriesCaching ==
    \E g \in Goroutines :
        LET c == calls[g]
            hit == \/ \E i \in 1..Len(parsedIPs) : parsedIPs[i] = c.ip
                   \/ \E i \in 1..Len(parsedIPNets) : Contains(parsedIPNets[i], c.ip)
        IN  /\ c.pc = "range"
            /\ calls' = [calls EXCEPT ![g] =
                   [c EXCEPT !.pc = "done",
                             !.out = IF c.fn = "IsIPWhitelisted" THEN hit
                                     ELSE IF hit THEN "nil" ELSE "ErrIPNotWhitelisted"]]
            /\ parsedIPs' = IF hit THEN <<c.ip>> \o parsedIPs ELSE parsedIPs
            /\ UNCHANGED <<Retries, RetryWaitMin, RetryWaitMax, CallbackIPWhitelist,
                           parsedIPNets, nopts, built>>
            /\ UNCHANGED <<execVars, ipVars, svcVars, Timeout, qrLevel, applied>>
            /\ UNCHANGED <<qrContent, qrErr, idrAmount, idrText, rawEndpoint, sanitized,
                           pooled, buffers, holds, got>>

\* The loops of IsIPWhitelisted, over c.parsedIPs and then over
\* c.parsedIPNets, and the return that follows them.
rangeEntries ==
    \E g \in Goroutines :
        LET c == calls[g]
            hit == \/ \E i \in 1..Len(parsedIPs) : parsedIPs[i] = c.ip
                   \/ \E i \in 1..Len(parsedIPNets) : Contains(parsedIPNets[i], c.ip)
        IN  /\ c.pc = "range"
            /\ calls' = [calls EXCEPT ![g] =
                   [c EXCEPT !.pc = "done",
                             !.out = IF c.fn = "IsIPWhitelisted" THEN hit
                                     ELSE IF hit THEN "nil" ELSE "ErrIPNotWhitelisted"]]
            /\ UNCHANGED <<cfgVars, execVars, ipVars, svcVars, Timeout, qrLevel, applied>>
            /\ UNCHANGED <<qrContent, qrErr, idrAmount, idrText, rawEndpoint, sanitized,
                           pooled, buffers, holds, got>>

\* GenerateSignature reads c.digest; VerifySignature reads nothing of the
\* client.
sign ==
    \E g \in Goroutines :
        LET c == calls[g]
        IN  /\ c.fn \in {"GenerateSignature", "VerifySignature"}
            /\ c.pc = "entry"
            /\ calls' = [calls EXCEPT ![g] =
                   [c EXCEPT !.pc = "done",
                             !.out = IF c.fn = "GenerateSignature"
                                     THEN GenerateSignature(c.arg)
                                     ELSE VerifySignature(c.arg[1], c.arg[2])]]
            /\ UNCHANGED <<cfgVars, execVars, ipVars, svcVars, Timeout, qrLevel, applied>>
            /\ UNCHANGED <<qrContent, qrErr, idrAmount, idrText, rawEndpoint, sanitized,
                           pooled, buffers, holds, got>>

ExecStep == Begin \/ Return \/ Pass \/ Elapse \/ Abort

Next ==
    \/ SetRetries
    \/ SetRetryWait
    \/ Construct
    \/ Begin
    \/ Return
    \/ Pass
    \/ Elapse
    \/ Abort
    \/ CancelCtx

Spec == Init /\ [][Next]_vars

\* New returns, the transport answers and timers fire; the caller need not cancel.
FairSpec == Spec /\ WF_vars(Construct) /\ WF_vars(ExecStep)

\* Construction with an allow-list, then checks of callback source addresses.
NextIP ==
    \/ SetWhitelist
    \/ Construct
    \/ CheckSource

SpecIP == Init /\ [][NextIP]_vars

\* Signing: the digest is configured, then messages are signed.
NextSign ==
    \/ SetDigest
    \/ Construct
    \/ Sign
    \/ SignDefault
    \/ SignClient

SpecSign == Init /\ [][NextSign]_vars

\* Comparison of signatures.
NextVerify == Compare

SpecVerify == Init /\ [][NextVerify]_vars

\* Construction with an allow-list, then callbacks to verify.
NextCallback ==
    \/ SetWhitelist
    \/ Construct
    \/ ReceiveCallback

SpecCallback == Init /\ [][NextCallback]_vars

\* One call that is not cancelled, through to the parsed payload.
NextDecode ==
    \/ Construct
    \/ Begin
    \/ Return
    \/ Pass
    \/ Elapse
    \/ DecodeEnvelope
    \/ ParseInner

SpecDecode == Init /\ [][NextDecode]_vars

\* A client of any auth key, with debug mode and a logger set or not, makes
\* one call.
InitLog ==
    /\ \E k \in AuthKeys : NewWith(k)
    /\ qrLevel = "Medium" /\ InitExec /\ InitIP /\ InitSvc

NextLog ==
    \/ SetDebug
    \/ SetLogger
    \/ Construct
    \/ BeginLogged
    \/ ReturnLogged
    \/ PassLogged
    \/ ElapseLogged
    \/ AbortLogged
    \/ CancelLogged

SpecLog == InitLog /\ [][NextLog]_vars

\* Construction by New with any options among WithRetries, WithTimeout,
\* WithDebug and WithLogger.
SpecConfig ==
    Init /\ [][ApplyRetries \/ ApplyTimeout \/ ApplyDebug \/ ApplyLogger \/ Construct]_vars

\* A client with any recovery level encodes contents.
InitQR ==
    /\ NewWith(DocAuthKey)
    /\ qrLevel \in DOMAIN maxBytes
    /\ InitExec /\ InitIP /\ InitSvc

SpecQR == InitQR /\ [][Construct \/ EncodeQR]_vars

\* Amounts are formatted.
SpecFormat == Init /\ [][FormatIDR]_vars

\* Endpoints are sanitized.
SpecSanitize == Init /\ [][SanitizeEndpoint]_vars

\* Goroutines share the pool gc.Default.
SpecPool == Init /\ [][Get \/ WriteString \/ Reset \/ Put]_vars

\* New(auth, secret, WithRetries(1), WithCallbackIPWhitelist(ips),
\* WithDigest(d)) has returned.
InitConc ==
    /\ \E ips \in {<<>>, <<<<"1", "0", ".", "0", ".", "0", ".", "0", "/", "8">>, <<"1", "9", "2", ".", "1", "6", "8", ".", "1", ".", "1">>>>} :
           /\ CallbackIPWhitelist = ips
           /\ parsedIPs = parsedAddrs(ips)
           /\ parsedIPNets = parsedNets(ips)
    /\ digest \in {"nil", "sha256"}
    /\ Retries = 1
    /\ RetryWaitMin = DefaultRetryWaitMin
    /\ RetryWaitMax = DefaultRetryWaitMax
    /\ nopts = 3
    /\ built = TRUE
    /\ AuthKey = DocAuthKey
    /\ Debug = FALSE
    /\ logger = "Nop"
    /\ Timeout = DefaultTimeout
    /\ applied = <<>>
    /\ qrLevel = "Medium"
    /\ InitExec /\ InitIP /\ InitSvc

\* Two goroutines call methods of one client while a request is executed.
SpecConc ==
    InitConc /\ [][Enter \/ checkLen \/ rangeEntries \/ sign
                     \/ Begin \/ Return \/ Pass \/ Elapse]_vars

\* ------------------------------------------------------------------ claims

AllTransient == \A i \in 1..Len(outcomes) : outcomes[i] \in Transient

\* C1: in one logical call with retry count N the transport is attempted at
\* most N + 1 times and at most N backoff waits are made, whatever the
\* transport answers.
C1_AttemptsBounded == attempts <= Retries + 1 /\ waits <= Retries

C1_Witness ==
    /\ Retries >= 1
    /\ state = "Failed"
    /\ attempts = Retries + 1
    /\ waits = Retries

\* C2: with retry count 2, a 500 on the first attempt and success on the
\* second, the call succeeds after exactly 2 attempts with exactly one retry
\* warning between them, whose wait lies in [RetryWaitMin, RetryWaitMax].
C2_RetryOnceThenSuccess ==
    (Retries = 2 /\ state \in Terminal /\ outcomes = <<"http5xx", "ok">>) =>
        /\ state = "Succeeded"
        /\ attempts = 2
        /\ waits = 1
        /\ events = <<"sending", "retry", "sending", "completed">>
        /\ RetryWaitMin <= wait /\ wait <= RetryWaitMax

\* C3: when every attempt fails transiently (and the caller does not cancel),
\* a call with retry count N ends Failed, with an error, after exactly N + 1
\* attempts and N backoff waits; with N = 0 that is 1 attempt and no wait.
C3_ExhaustsRetries ==
    (state \in Terminal /\ ~canceled /\ AllTransient) =>
        /\ state = "Failed"
        /\ class = "TransientTransport"
        /\ attempts = Retries + 1
        /\ waits = Retries
        /\ (Retries = 0 => attempts = 1 /\ waits = 0 /\ wait = -1)

C3_Witness ==
    /\ Retries = 2
    /\ state = "Failed"
    /\ ~canceled
    /\ AllTransient
    /\ attempts = 3
    /\ waits = 2

\* C4: an answer that is not transient (a 4xx, a malformed request) is the
\* last one of its call: the call is over with it, and a backoff wait only
\* ever follows a 5xx, a timeout or a connection-level error.
C4_FatalNeverRetried ==
    /\ \A i \in 1..Len(outcomes) :
          outcomes[i] \in {"http4xx", "malformed"} =>
              i = Len(outcomes) /\ state \in Terminal /\ attempts = i /\ waits = i - 1
    /\ state = "RetryWait" =>
          Len(outcomes) = attempts /\ outcomes[attempts] \in Transient

C4_Witness ==
    /\ Retries >= 1
    /\ outcomes = <<"http5xx", "http4xx">>
    /\ attempts < Retries + 1
    /\ state \in Terminal

CanceledMidCall == cancelMark # <<>> /\ cancelMark[1] \in {"Sending", "RetryWait"}

\* C5: when the cancellation signal fires during a backoff wait or while an
\* attempt is in flight, no attempt is started afterwards, the call ends,
\* and it ends Failed with the Canceled classification.
C5_CancelEndsCall ==
    /\ [](CanceledMidCall =>
            /\ attempts = cancelMark[2]
            /\ state \in Terminal => state = "Failed" /\ class = "Canceled")
    /\ (CanceledMidCall ~> (state = "Failed" /\ class = "Canceled"))

C5_Witness ==
    /\ CanceledMidCall
    /\ cancelMark[1] = "RetryWait"
    /\ attempts <= Retries
    /\ state = "Failed"

\* C6: every backoff wait computed lies in [RetryWaitMin, RetryWaitMax].
C6_WaitWithinBounds ==
    waits > 0 => RetryWaitMin <= wait /\ wait <= RetryWaitMax

\* C7: a client returned by New has RetryWaitMin <= RetryWaitMax.
C7_MinWaitLeMaxWait == built => RetryWaitMin <= RetryWaitMax

\* C8: at most one attempt is in flight, and an attempt after the first
\* starts only from a backoff wait that followed a transient failure of the
\* attempt before it and has run out.
C8_Sequential ==
    [][/\ inflight' <= 1
       /\ (attempts' > attempts /\ attempts >= 1) =>
             /\ attempts' = attempts + 1
             /\ inflight = 0
             /\ state = "RetryWait"
             /\ Len(outcomes) = attempts
             /\ outcomes[attempts] \in Transient
             /\ waits = attempts
             /\ remaining = 0]_vars

C8_Witness == attempts = 3 /\ inflight = 1 /\ wait > 0

\* C9: a call under way ends Succeeded or Failed with a classified result,
\* given that attempts return and waits run out or are cancelled; a call
\* that has ended changes no more.
C9_Terminates ==
    /\ (state \in {"Sending", "RetryWait"}) ~> (state \in Terminal /\ class # "None")
    /\ [][(state \in Terminal) => (execVars' = execVars)]_vars

C9_Witness == state \in Terminal /\ attempts >= 2 /\ class # "None"

\* C10: with no allow-list entry configured, IsIPWhitelisted answers true
\* and VerifyCallbackIP answers nil for every string, parseable or not.
C10_EmptyAllowsAll ==
    (Len(CallbackIPWhitelist) = 0 /\ ipStr # NoCall) =>
        (whitelisted /\ verifyErr = "nil")

C10_Witness ==
    /\ nopts > 0
    /\ Len(CallbackIPWhitelist) = 0
    /\ ipStr # NoCall
    /\ ParseIP(stripPort(ipStr)) = NoAddr
    /\ whitelisted
    /\ verifyErr = "nil"

\* The configured entries read as the caller wrote them: the literal
\* addresses and the CIDR ranges among the strings of CallbackIPWhitelist.
ConfiguredLiteral(a) ==
    \E i \in 1..Len(CallbackIPWhitelist) : ParseIP(CallbackIPWhitelist[i]) = a
InConfiguredRange(a) ==
    \E i \in 1..Len(CallbackIPWhitelist) :
        LET n == ParseCIDR(CallbackIPWhitelist[i]) IN n.ok /\ Contains(n, a)
Allowed(s) ==
    LET a == ParseIP(stripPort(s))
    IN  a # NoAddr /\ (ConfiguredLiteral(a) \/ InConfiguredRange(a))

Str10_8 == <<"1", "0", ".", "0", ".", "0", ".", "0", "/", "8">>
Str10_1_2_3 == <<"1", "0", ".", "1", ".", "2", ".", "3">>
Str11_1_2_3 == <<"1", "1", ".", "1", ".", "2", ".", "3">>

\* C11: with a non-empty allow-list, IsIPWhitelisted answers true exactly
\* when the candidate, its port stripped, parses as an address that equals a
\* configured literal address or lies inside a configured CIDR range; with
\* the list ["10.0.0.0/8"], 10.1.2.3 is allowed and 11.1.2.3 is not.
C11_Membership ==
    (Len(CallbackIPWhitelist) > 0 /\ ipStr # NoCall) =>
        /\ whitelisted <=> Allowed(ipStr)
        /\ (CallbackIPWhitelist = <<Str10_8>> /\ ipStr = Str10_1_2_3) => whitelisted
        /\ (CallbackIPWhitelist = <<Str10_8>> /\ ipStr = Str11_1_2_3) => ~whitelisted

C11_Witness ==
    /\ Len(CallbackIPWhitelist) = 2
    /\ Len(parsedIPNets) = 2
    /\ ipStr = Str10_1_2_3
    /\ whitelisted

\* A candidate with a port: "a:p" for a dotted address, "[a]:p" otherwise.
WithPort(a, p) ==
    IF IndexByte(a, ":") = 0 THEN a \o <<":">> \o p
    ELSE <<"[">> \o a \o <<"]", ":">> \o p

Addresses == {c \in Candidates : ParseIP(c) # NoAddr}
Ports == {<<"8", "0">>, <<"4", "4", "3">>, <<"9", "9", "9", "9">>}

\* C12: for every allow-list, a candidate made of an address of either
\* family and a port ("a:p", "[a]:p") gets the answer IsIPWhitelisted gives
\* for the address alone.
C12_PortIgnored ==
    \A a \in Addresses, p \in Ports :
        /\ ipStr = WithPort(a, p) => (whitelisted <=> IsIPWhitelisted(a))
        /\ (built /\ ipStr = NoCall) =>
              (IsIPWhitelisted(WithPort(a, p)) <=> IsIPWhitelisted(a))

C12_Witness ==
    /\ Len(CallbackIPWhitelist) > 0
    /\ \E a \in Addresses, p \in Ports :
          /\ IndexByte(a, ":") # 0
          /\ ipStr = WithPort(a, p)
          /\ IsIPWhitelisted(a)
    /\ whitelisted

\* C13: with a non-empty allow-list, a candidate that does not parse is
\* answered false by IsIPWhitelisted and ErrInvalidIPAddress by
\* VerifyCallbackIP; one that parses but is outside the list is answered
\* ErrIPNotWhitelisted.
C13_ErrorKinds ==
    (Len(CallbackIPWhitelist) > 0 /\ ipStr # NoCall) =>
        /\ ParseIP(stripPort(ipStr)) = NoAddr =>
              ~whitelisted /\ verifyErr = "ErrInvalidIPAddress"
        /\ (ParseIP(stripPort(ipStr)) # NoAddr /\ ~Allowed(ipStr)) =>
              verifyErr = "ErrIPNotWhitelisted"

C13_Witness ==
    /\ Len(parsedIPs) + Len(parsedIPNets) > 0
    /\ ipStr # NoCall
    /\ ParseIP(stripPort(ipStr)) = NoAddr
    /\ verifyErr = "ErrInvalidIPAddress"

\* C14: Verify(expected, actual) answers true exactly when the two strings
\* are identical byte for byte, and false on any mismatch, different
\* lengths included; two empty strings are equal.
C14_VerifyIffIdentical ==
    expected # NoCall =>
        /\ verified \in BOOLEAN
        /\ verified <=> /\ Len(expected) = Len(actual)
                        /\ \A i \in 1..Len(expected) :
                              ByteOf(expected[i]) = ByteOf(actual[i])
        /\ Len(expected) # Len(actual) => ~verified
        /\ (expected = <<>> /\ actual = <<>>) => verified

C14_Witness ==
    /\ expected # NoCall
    /\ Len(expected) = MaxSigLen
    /\ Len(actual) = MaxSigLen
    /\ expected[1] = actual[1]
    /\ expected[MaxSigLen] # actual[MaxSigLen]
    /\ ~verified

\* The hash a signing call used: MD5 when none was given.
DigestUsed(s) == IF s.digest = "nil" THEN "md5" ELSE s.digest

SignatureMatches ==
    callback.signature = GenerateWithDigest(callback.fields \o DocSecretKey, digest)

IsRedacted(endpoint) == \E p \in EndpointPatterns : endpoint = Sprintf(p, Redacted)

AtLevel(l) == {i \in 1..Len(events) : Level(events[i]) = l}

C23_RetriesAndTimeoutValid ==
    /\ [](Retries >= 0 /\ Timeout >= MinTimeout)
    /\ [][Len(applied') > Len(applied) =>
             LET o == applied'[Len(applied')]
             IN  /\ (o.opt = "WithRetries" /\ o.arg < 0) => Retries' = Retries
                 /\ (o.opt = "WithTimeout" /\ o.arg < MinTimeout) => Timeout' = Timeout]_vars

C23_Witness ==
    /\ built
    /\ Len(applied) = 2
    /\ \A i \in 1..2 : applied[i].opt = "WithTimeout"
    /\ applied[1].arg = 2 * DefaultTimeout
    /\ applied[2].arg = MinTimeout - 1
    /\ Timeout = 2 * DefaultTimeout

\* A logger that is neither nil nor the no-op logger.
IsCustom(l) == l \notin {"nil", "Nop"}
WithLoggerAt(i) == applied[i].opt = "WithLogger"
DebugOnAt(i) == applied[i].opt = "WithDebug" /\ applied[i].arg = TRUE
CustomSupplied == \E i \in 1..Len(applied) : WithLoggerAt(i) /\ IsCustom(applied[i].arg)

C22_EmptyContentOnly ==
    qrContent >= 0 =>
        /\ qrErr = "ErrEmptyQRContent" <=> qrContent = 0
        /\ qrContent > maxBytes[qrLevel] => qrErr = "ErrQREncodeFailed"

\* The digits of s to the right of position i.
DigitsRight(s, i) == Cardinality({j \in (i + 1)..Len(s) : IsDigit(s[j])})

\* C25: FormatAmountIDR returns "Rp " followed by the decimal representation
\* of the amount with a "." between each two groups of three digits counted
\* from the right and nowhere else; a "." only stands between two digits.
C25_GroupsOfThree ==
    idrText # NoCall =>
        LET t == SubSeq(idrText, 4, Len(idrText))
            kept == {i \in 1..Len(t) : t[i] # "."}
            nth(k) == CHOOSE i \in kept : Cardinality({j \in kept : j <= i}) = k
        IN  /\ SubSeq(idrText, 1, 3) = <<"R", "p", " ">>
            /\ [k \in 1..Cardinality(kept) |-> t[nth(k)]] = SprintfD(idrAmount)
            /\ \A i \in 1..Len(t) :
                   /\ t[i] = "." =>
                          /\ 1 < i /\ i < Len(t)
                          /\ IsDigit(t[i - 1]) /\ IsDigit(t[i + 1])
                   /\ (IsDigit(t[i]) /\ i < Len(t)) =>
                          (t[i + 1] = "." <=>
                              (DigitsRight(t, i) > 0 /\ DigitsRight(t, i) % 3 = 0))

\* The positions of the parts of an endpoint that a redaction may follow:
\* "operator" or "operators" with a non-empty part after it.
OperatorParts(parts) ==
    {i \in 1..(Len(parts) - 1) :
        parts[i] \in {Operator, Operators} /\ Len(parts[i + 1]) > 0}

\* C27: sanitize.Endpoint replaces by "[REDACTED]" the part after the first
\* "operator" or "operators" part that has a non-empty part after it,
\* wherever it is, and leaves every other part as it was; an input without
\* such a pair of parts is returned unchanged.
C27_RedactsAfterFirstOperator ==
    rawEndpoint # NoCall =>
        LET parts == Split(rawEndpoint, "/")
            out == Split(sanitized, "/")
            hits == OperatorParts(parts)
        IN  IF hits = {} THEN sanitized = rawEndpoint
            ELSE /\ Len(out) = Len(parts)
                 /\ \A j \in 1..Len(parts) :
                        out[j] = IF j - 1 \in hits /\ \A i \in hits : j - 1 <= i
                                 THEN Redacted
                                 ELSE parts[j]

\* C26: when every configured string is unparseable, so that no entry is
\* left after parsing, IsIPWhitelisted returns true for every candidate, as
\* it does for a list without strings.
C26_AllDroppedAllowsAll ==
    (ipStr # NoCall /\ parsedIPs = <<>> /\ parsedIPNets = <<>>) => whitelisted

\* C29: VerifyCallbackIP returns nil exactly when IsIPWhitelisted returns
\* true, for every allow-list and every candidate.
C29_VerifyAgreesWithIsWhitelisted ==
    ipStr # NoCall => (verifyErr = "nil" <=> whitelisted)

C29_Witness ==
    /\ CallbackIPWhitelist = <<Str10_8>>
    /\ ipStr = WithPort(Str10_1_2_3, <<"9", "9", "9", "9">>)
    /\ whitelisted
    /\ verifyErr = "nil"

\* The positions of the configured strings that parse as a range, and of
\* those that do not but parse as an address.
RangeStrings == {i \in 1..Len(CallbackIPWhitelist) : ParseCIDR(CallbackIPWhitelist[i]).ok}
LiteralStrings ==
    {i \in 1..Len(CallbackIPWhitelist) :
        ~ParseCIDR(CallbackIPWhitelist[i]).ok /\ ParseIP(CallbackIPWhitelist[i]) # NoAddr}

\* C30: the parsed ranges and addresses are exactly those of the strings of
\* the final CallbackIPWhitelist: one entry for each string that parses, a
\* range if it parses as one and else an address, and nothing that an
\* earlier WithCallbackIPWhitelist parsed.
C30_ParsedMatchesFinalList ==
    /\ Len(parsedIPNets) = Cardinality(RangeStrings)
    /\ Len(parsedIPs) = Cardinality(LiteralStrings)
    /\ \A i \in RangeStrings :
           \E j \in 1..Len(parsedIPNets) : parsedIPNets[j] = ParseCIDR(CallbackIPWhitelist[i])
    /\ \A j \in 1..Len(parsedIPNets) :
           \E i \in RangeStrings : parsedIPNets[j] = ParseCIDR(CallbackIPWhitelist[i])
    /\ \A i \in LiteralStrings :
           \E j \in 1..Len(parsedIPs) : parsedIPs[j] = ParseIP(CallbackIPWhitelist[i])
    /\ \A j \in 1..Len(parsedIPs) :
           \E i \in LiteralStrings : parsedIPs[j] = ParseIP(CallbackIPWhitelist[i])

\* Two lists were given one after the other; the second has one address.
C30_Witness ==
    /\ built
    /\ nopts = 2
    /\ Len(CallbackIPWhitelist) = 1
    /\ parsedIPNets = <<>>
    /\ Len(parsedIPs) = 1

C21_ConfigurationReadOnly ==
    /\ [][UNCHANGED <<Retries, RetryWaitMin, RetryWaitMax, digest,
                      CallbackIPWhitelist, parsedIPs, parsedIPNets>>]_vars
    /\ [](\A g \in Goroutines :
            calls[g].pc = "done" =>
                calls[g].out =
                    CASE calls[g].fn = "IsIPWhitelisted" -> IsIPWhitelisted(calls[g].arg)
                      [] calls[g].fn = "VerifyCallbackIP" -> VerifyCallbackIP(calls[g].arg)
                      [] calls[g].fn = "GenerateSignature" -> GenerateSignature(calls[g].arg)
                      [] calls[g].fn = "VerifySignature" ->
                             VerifySignature(calls[g].arg[1], calls[g].arg[2]))
    /\ [](state \in Terminal =>
            /\ attempts = Len(outcomes)
            /\ attempts <= Retries + 1
            /\ \A i \in 1..(attempts - 1) : outcomes[i] \in Transient
            /\ outcomes[attempts] \in Transient => attempts = Retries + 1)

\* One goroutine has been refused by VerifyCallbackIP while the other is
\* about to enter the loops of IsIPWhitelisted and the request waits to retry.
C21_Witness ==
    \E g, h \in Goroutines :
        /\ calls[g].pc = "done"
        /\ calls[g].fn = "VerifyCallbackIP"
        /\ calls[g].out = "ErrIPNotWhitelisted"
        /\ calls[h].fn = "IsIPWhitelisted"
        /\ calls[h].pc = "range"
        /\ state = "RetryWait"
====
